---- MODULE Spec2Model ----
(***************************************************************************)
(* Model of torch/ao/sparsity/experimental/pruner/base_pruner.py:          *)
(* the path resolver (_module_to_fqn / _fqn_to_module) and the BasePruner  *)
(* mask lifecycle (prepare / _prepare, step, manual_mask_update,           *)
(* squash_mask) acting on a tree of nn.Module objects.                     *)
(*                                                                         *)
(* Python values are represented as follows.                               *)
(*   module references : strings ("model", "l1", ...), None is NoneMod     *)
(*   str               : sequences of one-character strings, None is       *)
(*                       NoneStr                                           *)
(*   tensors           : records [data |-> <<row, ...>>] (one entry per    *)
(*                       output unit) or [item |-> n] (0-dim), None is     *)
(*                       NoneT                                             *)
(*   dict              : functions from key strings to values              *)
(***************************************************************************)
EXTENDS Integers, Sequences, FiniteSets, TLC

VARIABLES
    modules,             \* the nn.Module objects: type, _modules, weight, bias, _bias, mask, parametrizations, _forward_hooks
    defaults,            \* self.defaults: key |-> the object that is its value
    heap,                \* the contents of the objects that are dict values, by object identity
    model,               \* self.model
    prune_bias,          \* self.prune_bias
    module_groups,       \* self.module_groups
    activation_handles,  \* self.activation_handles
    bias_handles,        \* self.bias_handles
    enable_mask_update,  \* self.enable_mask_update
    last,                \* what the last call did: its name, outcome, warnings, update_mask invocations
    nprepares,           \* number of prepare calls made so far
    ncalls               \* number of calls made on the pruner so far

vars == <<modules, defaults, heap, model, prune_bias, module_groups, activation_handles,
          bias_handles, enable_mask_update, last, ncalls, nprepares>>

(***************************************************************************)
(* Bounds                                                                  *)
(***************************************************************************)
\* calls made on the pruner in one behaviour (prepare, step,
\* manual_mask_update, squash_mask, an assignment to enable_mask_update)
MaxCalls == 3
\* output units (weight.shape[0]) of every weight-bearing module
NUnits == 2
\* prepare calls in one behaviour
MaxPrepares == 1

(***************************************************************************)
(* Python values                                                           *)
(***************************************************************************)
NoneMod == "None"
NoneStr == <<"None">>
NoneT == [none |-> TRUE]
NoneConfig == <<NoneT>>

Dot == "."

\* dict.update: the keys of e win over the keys of d
DictUpdate(d, e) ==
    [k \in (DOMAIN d) \cup (DOMAIN e) |-> IF k \in DOMAIN e THEN e[k] ELSE d[k]]

\* dict.get(key, default)
DictGet(d, k, default) == IF k \in DOMAIN d THEN d[k] ELSE default

(***************************************************************************)
(* Module kinds                                                            *)
(***************************************************************************)
SUPPORTED_MODULES == {"Linear", "Conv2d", "BatchNorm2d"}

NEEDS_MANUAL_UPDATE == {"BatchNorm2d"}

NEEDS_ZEROS == {"BatchNorm2d"}

\* the classes of the modules a model is built from; "Module" is a plain
\* nn.Module subclass without weight (a container or a custom layer),
\* "Conv1d" a weight-bearing layer outside SUPPORTED_MODULES, "MyLinear" and
\* "MyBatchNorm2d" user subclasses of nn.Linear and nn.BatchNorm2d
LayerTypes ==
    {"Linear", "Conv2d", "BatchNorm2d", "Conv1d", "Module", "MyLinear", "MyBatchNorm2d"}

\* the classes a class derives from (itself included)
Mro(cls) ==
    CASE cls = "MyLinear" -> {"MyLinear", "Linear"}
      [] cls = "MyBatchNorm2d" -> {"MyBatchNorm2d", "BatchNorm2d"}
      [] OTHER -> {cls}

\* isinstance(module, tuple(classes))
IsInstance(ms, m, classes) == (Mro(ms[m].type) \cap classes) # {}

\* type(module) in classes
TypeIn(ms, m, classes) == ms[m].type \in classes

HasWeight(cls) == cls # "Module"

\* nn.Conv2d(..., bias=False) stands for the layers built without a bias
HasBias(cls) == cls \notin {"Module", "Conv2d"}

(***************************************************************************)
(* The model tree                                                          *)
(***************************************************************************)
Root == "model"
Layers == {"l1", "l2", "l3"}
Mods == {Root} \cup Layers

Units == 0 .. (NUnits - 1)

\* the _modules of every module, in registration order, as <<name, child>>
\* two layers under the root, l3 outside the tree
FlatShape ==
    [model |-> << <<<<"a">>, "l1">>, <<<<"b">>, "l2">> >>,
     l1 |-> <<>>, l2 |-> <<>>, l3 |-> <<>>]

\* a chain of depth three
ChainShape ==
    [model |-> << <<<<"a">>, "l1">> >>,
     l1 |-> << <<<<"f", "c">>, "l2">> >>,
     l2 |-> << <<<<"b">>, "l3">> >>, l3 |-> <<>>]

\* the module object l3 is a child of two parents
SharedShape ==
    [model |-> << <<<<"a">>, "l1">>, <<<<"b">>, "l2">> >>,
     l1 |-> << <<<<"f", "c">>, "l3">> >>,
     l2 |-> << <<<<"f", "c">>, "l3">> >>, l3 |-> <<>>]

\* the module object l1 is registered under two names of the root
AliasShape ==
    [model |-> << <<<<"a">>, "l1">>, <<<<"f", "c">>, "l1">>, <<<<"b">>, "l2">> >>,
     l1 |-> <<>>, l2 |-> <<>>, l3 |-> <<>>]

Typed(t1, t2, t3) == [l1 |-> t1, l2 |-> t2, l3 |-> t3]

\* the models the pruner is run on
Models ==
    { [shape |-> FlatShape, typing |-> Typed("Linear", "Conv1d", "Linear")],
      [shape |-> FlatShape, typing |-> Typed("Linear", "Module", "BatchNorm2d")],
      [shape |-> FlatShape, typing |-> Typed("Conv2d", "BatchNorm2d", "Conv1d")],
      [shape |-> FlatShape, typing |-> Typed("MyLinear", "MyBatchNorm2d", "Linear")],
      [shape |-> ChainShape, typing |-> Typed("Module", "Module", "Linear")],
      [shape |-> ChainShape, typing |-> Typed("BatchNorm2d", "Linear", "Linear")],
      [shape |-> ChainShape, typing |-> Typed("MyLinear", "BatchNorm2d", "Conv2d")],
      [shape |-> SharedShape, typing |-> Typed("Module", "Module", "Linear")],
      [shape |-> SharedShape, typing |-> Typed("Module", "Module", "BatchNorm2d")],
      [shape |-> AliasShape, typing |-> Typed("Linear", "BatchNorm2d", "Module")] }

NewModule(cls, kids) ==
    [type |-> cls,
     _modules |-> kids,
     weight |-> IF HasWeight(cls) THEN [data |-> [i \in 1 .. NUnits |-> i]] ELSE NoneT,
     bias |-> IF HasBias(cls) THEN [data |-> [i \in 1 .. NUnits |-> 10 + i]] ELSE NoneT,
     _bias |-> NoneT,
     mask |-> NoneT,
     parametrizations |-> <<>>,
     _forward_hooks |-> <<>>]

\* Module.named_children(): the registered children in order, each module
\* object once
RECURSIVE NamedChildrenFrom(_, _, _)
NamedChildrenFrom(kids, i, memo) ==
    IF i > Len(kids) THEN <<>>
    ELSE IF kids[i][2] = NoneMod \/ kids[i][2] \in memo
         THEN NamedChildrenFrom(kids, i + 1, memo)
         ELSE <<kids[i]>> \o NamedChildrenFrom(kids, i + 1, memo \cup {kids[i][2]})

named_children(ms, m) == NamedChildrenFrom(ms[m]._modules, 1, {})

\* getattr(module, name, None) for a name that can only denote a submodule
GetAttrModule(ms, m, name) ==
    LET hits == {i \in 1 .. Len(ms[m]._modules) : ms[m]._modules[i][1] = name}
    IN IF hits = {} THEN NoneMod ELSE ms[m]._modules[CHOOSE i \in hits : TRUE][2]

(***************************************************************************)
(* Path resolver                                                           *)
(***************************************************************************)
RECURSIVE ModuleToFqnFrom(_, _, _, _, _)
\* the loop of _module_to_fqn over named_children(m), from child i on
ModuleToFqnFrom(ms, m, layer, prefix, i) ==
    LET kids == named_children(ms, m) IN
    IF i > Len(kids) THEN NoneStr
    ELSE LET new_name == prefix \o <<Dot>> \o kids[i][1]
             child == kids[i][2]
         IN IF child = layer THEN new_name
            ELSE LET child_path == ModuleToFqnFrom(ms, child, layer, new_name, 1)
                 IN IF child_path # NoneStr THEN child_path
                    ELSE ModuleToFqnFrom(ms, m, layer, prefix, i + 1)

_module_to_fqn(ms, m, layer) == ModuleToFqnFrom(ms, m, layer, <<>>, 1)

\* str.split('.')
RECURSIVE SplitFrom(_, _, _)
SplitFrom(s, i, cur) ==
    IF i > Len(s) THEN <<cur>>
    ELSE IF s[i] = Dot THEN <<cur>> \o SplitFrom(s, i + 1, <<>>)
         ELSE SplitFrom(s, i + 1, Append(cur, s[i]))

Split(s) == SplitFrom(s, 1, <<>>)

RECURSIVE WalkPath(_, _, _, _)
WalkPath(ms, m, names, i) ==
    IF i > Len(names) THEN m
    ELSE LET next == GetAttrModule(ms, m, names[i])
         IN IF next = NoneMod THEN NoneMod ELSE WalkPath(ms, next, names, i + 1)

\* AttributeError when path is None (None has no split); otherwise the module
\* or None
FqnToModuleRaises(path) == path = NoneStr

\* a resolver that returns from inside its loop, after the first component
FqnToModuleFirstComponent(ms, m, path) == GetAttrModule(ms, m, Split(path)[1])

_fqn_to_module(ms, m, path) == WalkPath(ms, m, Split(path), 1)

(***************************************************************************)
(* Weight transforms and forward hooks of the host engine                  *)
(***************************************************************************)
\* the count taken one short, as an index of the last unit would be
ScalarTensorOfLastIndex(n) == [item |-> n - 1]

\* torch.tensor(n): a 0-dim tensor holding n
ScalarTensor(n) == [item |-> n]

\* param(module.mask): a parametrization object built from the mask
NewParametrization(cls, mask) ==
    [cls |-> cls, original_outputs |-> mask.item, pruned_outputs |-> {}]

\* the rows of x a parametrization lets through: PruningParametrization
\* removes the pruned units, ZeroesParametrization zeroes them
ApplyParametrization(p, x) ==
    IF p.cls = "ZeroesParametrization"
    THEN [i \in 1 .. Len(x) |-> IF (i - 1) \in p.pruned_outputs THEN 0 ELSE x[i]]
    ELSE LET Keep(i) == (i - 1) \notin p.pruned_outputs
             idx == {i \in 1 .. Len(x) : Keep(i)}
             Nth(k) == CHOOSE i \in idx : Cardinality({j \in idx : j < i}) = k - 1
         IN [k \in 1 .. Cardinality(idx) |-> x[Nth(k)]]

RECURSIVE ApplyChain(_, _, _)
ApplyChain(ps, i, x) ==
    IF i > Len(ps) THEN x ELSE ApplyChain(ps, i + 1, ApplyParametrization(ps[i], x))

\* module.weight as the computation sees it: the stored weight passed through
\* parametrizations.weight
ParametrizedWeight(ms, m) ==
    IF ms[m].weight = NoneT THEN NoneT
    ELSE [data |-> ApplyChain(ms[m].parametrizations, 1, ms[m].weight.data)]

is_parametrized(ms, m) == ms[m].parametrizations # <<>>

\* parametrize.register_parametrization(module, 'weight', p, unsafe=True)
register_parametrization(ms, m, p) ==
    [ms EXCEPT ![m].parametrizations = Append(@, p)]

\* remove_parametrizations raises for a module that is None or holds no
\* parametrization of 'weight'
RemoveParametrizationsRaises(ms, m) == m = NoneMod \/ ~is_parametrized(ms, m)

\* parametrize.remove_parametrizations(module, 'weight', leave_parametrized=True)
remove_parametrizations(ms, m) ==
    [ms EXCEPT ![m].weight = ParametrizedWeight(ms, m), ![m].parametrizations = <<>>]

\* module.register_forward_hook(hook); the handle names the module and the
\* hook's position
register_forward_hook(ms, m, hook) ==
    [ms EXCEPT ![m]._forward_hooks = Append(@, hook)]

HookHandle(ms, m) == [module |-> m, id |-> Len(ms[m]._forward_hooks) + 1]

(***************************************************************************)
(* BasePruner._prepare                                                     *)
(***************************************************************************)
\* a loop body that tests the module's kind before it attaches anything
PrepareGroupChecksKindFirst(st, config, pb) ==
    LET m == config.module
        ms0 == st.ms
        zeros == IsInstance(ms0, m, NEEDS_ZEROS)
        noWeight == ms0[m].weight = NoneT
        ms1 == IF ms0[m].mask = NoneT /\ ~noWeight
               THEN [ms0 EXCEPT ![m].mask = ScalarTensor(Len(ms0[m].weight.data))]
               ELSE ms0
        cls == DictGet(config, "parametrization",
                       IF zeros THEN "ZeroesParametrization" ELSE "PruningParametrization")
        ms2 == register_parametrization(ms1, m, NewParametrization(cls, ms1[m].mask))
        ms3 == IF zeros THEN ms2
               ELSE register_forward_hook(ms2, m, [hook |-> "ActivationReconstruction"])
        ah3 == IF zeros THEN st.ah ELSE Append(st.ah, HookHandle(ms2, m))
        ms4 == IF ms3[m].bias # NoneT
               THEN [ms3 EXCEPT ![m]._bias = ms3[m].bias, ![m].bias = NoneT]
               ELSE ms3
        ms5 == register_forward_hook(ms4, m, [hook |-> "BiasHook", prune_bias |-> pb])
    IN IF ~zeros /\ ~IsInstance(ms0, m, SUPPORTED_MODULES)
       THEN [st EXCEPT !.err = "NotImplementedError"]
       ELSE IF noWeight
            THEN [st EXCEPT !.err = "AttributeError"]
            ELSE [ms |-> ms5, ah |-> ah3, bh |-> Append(st.bh, HookHandle(ms4, m)),
                  err |-> "ok"]

\* a loop body that registers the bias hook and leaves the bias in place
PrepareGroupKeepsBias(st, config, pb) ==
    LET m == config.module
        ms0 == st.ms
        zeros == IsInstance(ms0, m, NEEDS_ZEROS)
        noWeight == ms0[m].weight = NoneT
        ms1 == IF ms0[m].mask = NoneT /\ ~noWeight
               THEN [ms0 EXCEPT ![m].mask = ScalarTensor(Len(ms0[m].weight.data))]
               ELSE ms0
        cls == DictGet(config, "parametrization",
                       IF zeros THEN "ZeroesParametrization" ELSE "PruningParametrization")
        ms2 == register_parametrization(ms1, m, NewParametrization(cls, ms1[m].mask))
        ms3 == IF zeros THEN ms2
               ELSE register_forward_hook(ms2, m, [hook |-> "ActivationReconstruction"])
        ah3 == IF zeros THEN st.ah ELSE Append(st.ah, HookHandle(ms2, m))
        ms5 == register_forward_hook(ms3, m, [hook |-> "BiasHook", prune_bias |-> pb])
    IN IF noWeight
       THEN [st EXCEPT !.err = "AttributeError"]
       ELSE IF ~zeros /\ ~IsInstance(ms0, m, SUPPORTED_MODULES)
            THEN [st EXCEPT !.ms = ms2, !.err = "NotImplementedError"]
            ELSE [ms |-> ms5, ah |-> ah3, bh |-> Append(st.bh, HookHandle(ms3, m)),
                  err |-> "ok"]

\* one iteration of the loop of _prepare, on st = [ms, ah, bh, err]
PrepareGroup(st, config, pb) ==
    LET m == config.module
        ms0 == st.ms
        zeros == IsInstance(ms0, m, NEEDS_ZEROS)
        needMask == ms0[m].mask = NoneT
        \* module.weight.shape[0] on a module without weight
        noWeight == ms0[m].weight = NoneT
        ms1 == IF needMask /\ ~noWeight
               THEN [ms0 EXCEPT ![m].mask = ScalarTensor(Len(ms0[m].weight.data))]
               ELSE ms0
        cls == DictGet(config, "parametrization",
                       IF zeros THEN "ZeroesParametrization" ELSE "PruningParametrization")
        ms2 == register_parametrization(ms1, m, NewParametrization(cls, ms1[m].mask))
        supported == IsInstance(ms0, m, SUPPORTED_MODULES)
        ms3 == IF zeros THEN ms2
               ELSE register_forward_hook(ms2, m, [hook |-> "ActivationReconstruction"])
        ah3 == IF zeros THEN st.ah ELSE Append(st.ah, HookHandle(ms2, m))
        ms4 == IF ms3[m].bias # NoneT
               THEN [ms3 EXCEPT ![m]._bias = ms3[m].bias, ![m].bias = NoneT]
               ELSE ms3
        ms5 == register_forward_hook(ms4, m, [hook |-> "BiasHook", prune_bias |-> pb])
    IN IF noWeight
       THEN [st EXCEPT !.err = "AttributeError"]
       ELSE IF ~zeros /\ ~supported
            THEN [st EXCEPT !.ms = ms2, !.err = "NotImplementedError"]
            ELSE [ms |-> ms5, ah |-> ah3, bh |-> Append(st.bh, HookHandle(ms4, m)),
                  err |-> "ok"]

RECURSIVE PrepareLoop(_, _, _, _)
PrepareLoop(st, groups, i, pb) ==
    IF i > Len(groups) \/ st.err # "ok" THEN st
    ELSE PrepareLoop(PrepareGroup(st, groups[i], pb), groups, i + 1, pb)

\* self._prepare() with use_path=False: the handle lists start empty
_prepare(ms, groups, pb) ==
    PrepareLoop([ms |-> ms, ah |-> <<>>, bh |-> <<>>, err |-> "ok"], groups, 1, pb)

(***************************************************************************)
(* BasePruner.prepare                                                      *)
(***************************************************************************)
\* a config entry: a bare nn.Module, or a dict with a 'module' key
ModuleEntry(m) == [isModule |-> TRUE, ref |-> m]
DictEntry(d) == [isModule |-> FALSE, dict |-> d]

\* the dict of a config entry: a bare module stands for {'module': module}
EntryDict(e) == IF e.isModule THEN [module |-> e.ref] ELSE e.dict

ManualWarning(cls) == <<"must have pruned outputs provided by user", cls>>

\* a discovery that tests NEEDS_MANUAL_UPDATE before SUPPORTED_MODULES and
\* leaves such a child out with a warning
DiscoverChildManualFirst(ms, child, acc, also_prune_bias) ==
    IF TypeIn(ms, child, NEEDS_MANUAL_UPDATE)
    THEN [acc EXCEPT !.warnings = IF also_prune_bias
                                  THEN Append(@, ManualWarning(ms[child].type))
                                  ELSE @]
    ELSE IF TypeIn(ms, child, SUPPORTED_MODULES)
         THEN [acc EXCEPT !.config = Append(@, ModuleEntry(child))]
         ELSE [acc EXCEPT !.stack = Append(@, child)]

\* the body of the for loop over module.named_children() of the
\* auto-discovery, on acc = [stack, config, warnings, traversed]
DiscoverChild(ms, child, acc, also_prune_bias) ==
    IF TypeIn(ms, child, SUPPORTED_MODULES)
    THEN [acc EXCEPT !.config = Append(@, ModuleEntry(child))]
    ELSE [acc EXCEPT
            !.warnings = IF TypeIn(ms, child, NEEDS_MANUAL_UPDATE) /\ also_prune_bias
                         THEN Append(@, ManualWarning(ms[child].type))
                         ELSE @,
            !.stack = Append(@, child)]

RECURSIVE DiscoverChildren(_, _, _, _, _)
DiscoverChildren(ms, kids, i, acc, also_prune_bias) ==
    IF i > Len(kids) THEN acc
    ELSE DiscoverChildren(ms, kids, i + 1,
                          DiscoverChild(ms, kids[i][2], acc, also_prune_bias),
                          also_prune_bias)

RECURSIVE DiscoverLoop(_, _, _)
\* while stack: module = stack.pop(); ...
DiscoverLoop(ms, acc, also_prune_bias) ==
    IF acc.stack = <<>> THEN acc
    ELSE LET module == acc.stack[Len(acc.stack)]
             popped == [acc EXCEPT !.stack = SubSeq(@, 1, Len(@) - 1),
                                   !.traversed = Append(@, module)]
         IN DiscoverLoop(ms,
                DiscoverChildren(ms, named_children(ms, module), 1, popped, also_prune_bias),
                also_prune_bias)

\* self.config when prepare is given config=None
Discover(ms, root, also_prune_bias) ==
    DiscoverLoop(ms, [stack |-> <<root>>, config |-> <<>>, warnings |-> <<>>,
                      traversed |-> <<>>],
                 also_prune_bias)

\* the leading '.' of a path is dropped; None and '' are left alone
StripLeadingDot(fqn) ==
    IF fqn # NoneStr /\ fqn # <<>> /\ fqn[1] = Dot THEN Tail(fqn) ELSE fqn

\* a copy that is a new dict holding the same value objects
ShallowCopy(d, hp) == [dict |-> d, heap |-> hp]

RECURSIVE DeepCopyKeys(_, _, _, _)
DeepCopyKeys(d, keys, acc, hp) ==
    IF keys = {} THEN [dict |-> acc, heap |-> hp]
    ELSE LET k == CHOOSE x \in keys : TRUE
         IN DeepCopyKeys(d, keys \ {k}, [acc EXCEPT ![k] = Len(hp) + 1],
                         Append(hp, hp[d[k]]))

\* copy.deepcopy(d): a new dict whose values are new objects with the
\* contents of the values of d
deepcopy(d, hp) == DeepCopyKeys(d, DOMAIN d, d, hp)

\* the group of one config entry: a deep copy of the defaults overlaid with
\* the entry, and the entry's path; the result is [group, heap]
LocalArgs(ms, root, dflt, module_config, hp) ==
    LET d == EntryDict(module_config)
        copy == deepcopy(dflt, hp)
        local_args == DictUpdate(copy.dict, d)
        module_fqn == StripLeadingDot(_module_to_fqn(ms, root, local_args.module))
    IN [group |-> DictUpdate(local_args, [fqn |-> module_fqn]), heap |-> copy.heap]

\* the loop of lines 166-176, on acc = [groups, heap]
RECURSIVE NormalizeConfig(_, _, _, _, _, _)
NormalizeConfig(ms, root, dflt, config, i, acc) ==
    IF i > Len(config) THEN acc
    ELSE LET la == LocalArgs(ms, root, dflt, config[i], acc.heap)
         IN NormalizeConfig(ms, root, dflt, config, i + 1,
                            [groups |-> Append(acc.groups, la.group), heap |-> la.heap])

\* op: the call; result: "ok" or the exception it ended in; warnings: the
\* warnings it emitted; calls: the update_mask invocations, as <<layer, kwargs>>;
\* resolved: the modules its loop worked on; auto: prepare ran the
\* auto-discovery; traversed: the modules the auto-discovery popped off its
\* stack; arg: the pruned_outputs given to manual_mask_update
\* config: the entries prepare normalised, as dicts
NoCall == [op |-> "init", result |-> "ok", warnings |-> <<>>, calls |-> <<>>,
           resolved |-> <<>>, auto |-> FALSE, traversed |-> <<>>, arg |-> {},
           config |-> <<>>]

\* prepare(model, config, also_prune_bias); config = NoneConfig stands for None.
\* self.config is written and never read again, and is left out of the state.
Prepare(root, config, also_prune_bias) ==
    /\ ncalls < MaxCalls
    /\ nprepares < MaxPrepares
    /\ LET found == Discover(modules, root, also_prune_bias)
           cfg == IF config = NoneConfig THEN found.config ELSE config
           auto == config = NoneConfig
           norm == NormalizeConfig(modules, root, defaults, cfg, 1,
                                   [groups |-> module_groups, heap |-> heap])
           groups == norm.groups
           st == _prepare(modules, groups, also_prune_bias)
       IN /\ modules' = st.ms
          /\ module_groups' = groups
          /\ heap' = norm.heap
          /\ activation_handles' = st.ah
          /\ bias_handles' = st.bh
          /\ last' = [NoCall EXCEPT
                         !.op = "prepare", !.result = st.err, !.auto = auto,
                         !.config = [i \in DOMAIN cfg |-> EntryDict(cfg[i])],
                         !.warnings = IF auto THEN found.warnings ELSE <<>>,
                         !.traversed = IF auto THEN found.traversed ELSE <<>>]
    /\ model' = root
    /\ prune_bias' = also_prune_bias
    /\ ncalls' = ncalls + 1
    /\ nprepares' = nprepares + 1
    /\ UNCHANGED <<defaults, enable_mask_update>>

(***************************************************************************)
(* BasePruner.step and the update_mask callback                            *)
(***************************************************************************)
StepWarning(cls) == <<"User must update mask manually", cls>>

\* a concrete update_mask: the policy prunes output unit `unit` of the layer
\* it is given, through the layer's first weight parametrization; a layer
\* that is None or carries no parametrization makes it raise
UpdateMaskRaises(ms, layer) == layer = NoneMod \/ ~is_parametrized(ms, layer)

update_mask(ms, layer, unit) ==
    [ms EXCEPT ![layer].parametrizations[1].pruned_outputs = @ \cup {unit}]

\* the module a loop iteration works on: through the path, or the stored one
ResolveRaises(config, use_path) == use_path /\ FqnToModuleRaises(config.fqn)

Resolve(ms, root, config, use_path) ==
    IF use_path THEN _fqn_to_module(ms, root, config.fqn) ELSE config.module

\* a loop body without the NEEDS_MANUAL_UPDATE test
StepGroupAlwaysUpdates(st, root, config, use_path, unit) ==
    IF ResolveRaises(config, use_path) THEN [st EXCEPT !.err = "AttributeError"]
    ELSE LET module == Resolve(st.ms, root, config, use_path)
             st2 == [st EXCEPT !.resolved = Append(@, module),
                               !.calls = Append(@, <<module, config>>)]
         IN IF UpdateMaskRaises(st.ms, module)
            THEN [st2 EXCEPT !.err = "AttributeError"]
            ELSE [st2 EXCEPT !.ms = update_mask(st.ms, module, unit)]

\* one iteration of the loop of step, on st = [ms, warnings, calls, resolved, err]
StepGroup(st, root, config, use_path, unit) ==
    IF ResolveRaises(config, use_path) THEN [st EXCEPT !.err = "AttributeError"]
    ELSE LET module == Resolve(st.ms, root, config, use_path)
             st1 == [st EXCEPT !.resolved = Append(@, module)]
         IN IF module # NoneMod /\ TypeIn(st.ms, module, NEEDS_MANUAL_UPDATE)
            THEN [st1 EXCEPT !.warnings = Append(@, StepWarning(st.ms[module].type))]
            ELSE LET st2 == [st1 EXCEPT !.calls = Append(@, <<module, config>>)]
                 IN IF UpdateMaskRaises(st.ms, module)
                    THEN [st2 EXCEPT !.err = "AttributeError"]
                    ELSE [st2 EXCEPT !.ms = update_mask(st.ms, module, unit)]

RECURSIVE StepLoop(_, _, _, _, _, _)
StepLoop(st, root, groups, i, use_path, unit) ==
    IF i > Len(groups) \/ st.err # "ok" THEN st
    ELSE StepLoop(StepGroup(st, root, groups[i], use_path, unit),
                  root, groups, i + 1, use_path, unit)

\* a step without the enable_mask_update test
StepIgnoringSwitch(use_path, unit) ==
    /\ ncalls < MaxCalls
    /\ LET st == StepLoop([ms |-> modules, warnings |-> <<>>, calls |-> <<>>,
                           resolved |-> <<>>, err |-> "ok"],
                          model, module_groups, 1, use_path, unit)
       IN /\ modules' = st.ms
          /\ last' = [NoCall EXCEPT
                         !.op = "step", !.result = st.err,
                         !.warnings = st.warnings, !.calls = st.calls,
                         !.resolved = st.resolved]
    /\ ncalls' = ncalls + 1
    /\ UNCHANGED <<nprepares, defaults, heap, model, prune_bias, module_groups,
                   activation_handles, bias_handles, enable_mask_update>>

\* a step that drops the groups it only warns about from the registry
StepDroppingManualGroups(use_path, unit) ==
    /\ ncalls < MaxCalls
    /\ IF ~enable_mask_update
       THEN /\ last' = [NoCall EXCEPT !.op = "step"]
            /\ UNCHANGED <<modules, module_groups>>
       ELSE LET st == StepLoop([ms |-> modules, warnings |-> <<>>, calls |-> <<>>,
                                resolved |-> <<>>, err |-> "ok"],
                               model, module_groups, 1, use_path, unit)
            IN /\ modules' = st.ms
               /\ module_groups' =
                      SelectSeq(module_groups,
                                LAMBDA g : ~TypeIn(modules, g.module, NEEDS_MANUAL_UPDATE))
               /\ last' = [NoCall EXCEPT
                              !.op = "step", !.result = st.err,
                              !.warnings = st.warnings, !.calls = st.calls,
                              !.resolved = st.resolved]
    /\ ncalls' = ncalls + 1
    /\ UNCHANGED <<nprepares, defaults, heap, model, prune_bias,
                   activation_handles, bias_handles, enable_mask_update>>

\* step(use_path); `unit` is the choice the update_mask policy makes
Step(use_path, unit) ==
    /\ ncalls < MaxCalls
    /\ IF ~enable_mask_update
       THEN /\ last' = [NoCall EXCEPT !.op = "step"]
            /\ UNCHANGED modules
       ELSE LET st == StepLoop([ms |-> modules, warnings |-> <<>>, calls |-> <<>>,
                                resolved |-> <<>>, err |-> "ok"],
                               model, module_groups, 1, use_path, unit)
            IN /\ modules' = st.ms
               /\ last' = [NoCall EXCEPT
                              !.op = "step", !.result = st.err,
                              !.warnings = st.warnings, !.calls = st.calls,
                              !.resolved = st.resolved]
    /\ ncalls' = ncalls + 1
    /\ UNCHANGED <<nprepares, defaults, heap, model, prune_bias, module_groups,
                   activation_handles, bias_handles, enable_mask_update>>

(***************************************************************************)
(* BasePruner.manual_mask_update                                           *)
(***************************************************************************)
\* a manual_mask_update that assigns pruned_outputs instead of merging it
ManualMaskUpdateAssign(module, pruned_outputs) ==
    /\ ncalls < MaxCalls
    /\ IF ~is_parametrized(modules, module)
       THEN /\ last' = [NoCall EXCEPT !.op = "manual_mask_update",
                                      !.result = "AttributeError"]
            /\ UNCHANGED modules
       ELSE /\ modules' = [modules EXCEPT
                             ![module].parametrizations[1].pruned_outputs =
                                 pruned_outputs]
            /\ last' = [NoCall EXCEPT !.op = "manual_mask_update",
                                      !.resolved = <<module>>,
                                      !.arg = pruned_outputs]
    /\ ncalls' = ncalls + 1
    /\ UNCHANGED <<nprepares, defaults, heap, model, prune_bias, module_groups,
                   activation_handles, bias_handles, enable_mask_update>>

\* manual_mask_update(module, pruned_outputs); a module without
\* parametrizations has no module.parametrizations to read
ManualMaskUpdate(module, pruned_outputs) ==
    /\ ncalls < MaxCalls
    /\ IF ~is_parametrized(modules, module)
       THEN /\ last' = [NoCall EXCEPT !.op = "manual_mask_update",
                                      !.result = "AttributeError"]
            /\ UNCHANGED modules
       ELSE /\ modules' = [modules EXCEPT
                             ![module].parametrizations[1].pruned_outputs =
                                 @ \cup pruned_outputs]
            /\ last' = [NoCall EXCEPT !.op = "manual_mask_update",
                                      !.resolved = <<module>>,
                                      !.arg = pruned_outputs]
    /\ ncalls' = ncalls + 1
    /\ UNCHANGED <<nprepares, defaults, heap, model, prune_bias, module_groups,
                   activation_handles, bias_handles, enable_mask_update>>

(***************************************************************************)
(* BasePruner.squash_mask                                                  *)
(***************************************************************************)
\* getattr(module._parameters, 'mask', None) and getattr(module._buffers,
\* 'mask', None): attribute lookups on the dicts, which have no such attribute
DictAttrMask(ms, m) == NoneT

\* a loop body that passes over a module with nothing to remove
SquashGroupSkipsUnprepared(st, root, config, use_path) ==
    IF ResolveRaises(config, use_path) THEN [st EXCEPT !.err = "AttributeError"]
    ELSE LET module == Resolve(st.ms, root, config, use_path)
             st1 == [st EXCEPT !.resolved = Append(@, module)]
         IN IF RemoveParametrizationsRaises(st.ms, module)
            THEN st1
            ELSE [st1 EXCEPT !.ms = [remove_parametrizations(st.ms, module)
                                         EXCEPT ![module].mask = NoneT]]

\* a loop body that also puts the detached bias back in its primary slot
SquashGroupRestoresBias(st, root, config, use_path) ==
    IF ResolveRaises(config, use_path) THEN [st EXCEPT !.err = "AttributeError"]
    ELSE LET module == Resolve(st.ms, root, config, use_path)
             st1 == [st EXCEPT !.resolved = Append(@, module)]
         IN IF RemoveParametrizationsRaises(st.ms, module)
            THEN [st1 EXCEPT !.err = "ValueError"]
            ELSE [st1 EXCEPT !.ms = [remove_parametrizations(st.ms, module)
                                         EXCEPT ![module].mask = NoneT,
                                                ![module].bias = st.ms[module]._bias,
                                                ![module]._bias = NoneT]]

\* a loop body without the closing delattr(module, 'mask')
SquashGroupKeepsMask(st, root, config, use_path) ==
    IF ResolveRaises(config, use_path) THEN [st EXCEPT !.err = "AttributeError"]
    ELSE LET module == Resolve(st.ms, root, config, use_path)
             st1 == [st EXCEPT !.resolved = Append(@, module)]
         IN IF RemoveParametrizationsRaises(st.ms, module)
            THEN [st1 EXCEPT !.err = "ValueError"]
            ELSE [st1 EXCEPT !.ms = remove_parametrizations(st.ms, module)]

\* one iteration of the loop of squash_mask, on st = [ms, resolved, err]
SquashGroup(st, root, config, use_path) ==
    IF ResolveRaises(config, use_path) THEN [st EXCEPT !.err = "AttributeError"]
    ELSE LET module == Resolve(st.ms, root, config, use_path)
             st1 == [st EXCEPT !.resolved = Append(@, module)]
         IN IF RemoveParametrizationsRaises(st.ms, module)
            THEN [st1 EXCEPT !.err = "ValueError"]
            ELSE LET ms1 == remove_parametrizations(st.ms, module)
                     \* neither del runs; delattr removes the mask
                     ms2 == IF DictAttrMask(ms1, module) # NoneT
                            THEN [ms1 EXCEPT ![module].mask = NoneT]
                            ELSE ms1
                 IN IF ms2[module].mask = NoneT
                    THEN [st1 EXCEPT !.ms = ms2, !.err = "AttributeError"]
                    ELSE [st1 EXCEPT !.ms = [ms2 EXCEPT ![module].mask = NoneT]]

RECURSIVE SquashLoop(_, _, _, _, _)
SquashLoop(st, root, groups, i, use_path) ==
    IF i > Len(groups) \/ st.err # "ok" THEN st
    ELSE SquashLoop(SquashGroup(st, root, groups[i], use_path),
                    root, groups, i + 1, use_path)

\* squash_mask(use_path)
SquashMask(use_path) ==
    /\ ncalls < MaxCalls
    /\ LET st == SquashLoop([ms |-> modules, resolved |-> <<>>, err |-> "ok"],
                            model, module_groups, 1, use_path)
       IN /\ modules' = st.ms
          /\ last' = [NoCall EXCEPT !.op = "squash_mask", !.result = st.err,
                                    !.resolved = st.resolved]
    /\ ncalls' = ncalls + 1
    /\ UNCHANGED <<nprepares, defaults, heap, model, prune_bias, module_groups,
                   activation_handles, bias_handles, enable_mask_update>>

(***************************************************************************)
(* A value of a group is changed in place (by the caller, or by a mask     *)
(* policy through the kwargs step hands it)                                *)
(***************************************************************************)
\* the contents a caller or a mask policy writes into a group's value
MutatedContents == "changed"

SetGroupValue(i, key) ==
    /\ ncalls < MaxCalls
    /\ i \in 1 .. Len(module_groups)
    /\ key \in DOMAIN module_groups[i] \ {"module", "fqn"}
    /\ heap[module_groups[i][key]] # MutatedContents
    /\ heap' = [heap EXCEPT ![module_groups[i][key]] = MutatedContents]
    /\ last' = [NoCall EXCEPT !.op = "set_group_value"]
    /\ ncalls' = ncalls + 1
    /\ UNCHANGED <<nprepares, modules, defaults, model, prune_bias, module_groups,
                   activation_handles, bias_handles, enable_mask_update>>

(***************************************************************************)
(* The caller sets pruner.enable_mask_update                               *)
(***************************************************************************)
SetEnableMaskUpdate(b) ==
    /\ ncalls < MaxCalls
    /\ enable_mask_update # b
    /\ enable_mask_update' = b
    /\ last' = [NoCall EXCEPT !.op = "set_enable_mask_update"]
    /\ ncalls' = ncalls + 1
    /\ UNCHANGED <<nprepares, modules, defaults, heap, model, prune_bias, module_groups,
                   activation_handles, bias_handles>>

(***************************************************************************)
(* Specification                                                           *)
(***************************************************************************)
\* the objects that exist when the pruner is constructed: object 1 is the
\* value the caller put in defaults, object 2 the value the caller puts in
\* the config entries that set a key of their own
InitialHeap == <<"lo", "hi">>

\* the defaults the pruner is constructed with
DefaultsChoices == {[sparsity_level |-> 1]}

\* the entries of an explicit config: a bare module, or a dict that names
\* the module and sets a key of its own
Entries == {ModuleEntry(m) : m \in Layers}
               \cup {DictEntry([module |-> "l1", sparsity_level |-> 2])}

\* the explicit configs prepare is called with: one entry, two bare modules
\* (the same one twice included), or all three layers
Configs == {<<e>> : e \in Entries}
               \cup {<<ModuleEntry(m), ModuleEntry(n)>> : m \in {"l1", "l2"}, n \in Layers}
               \cup {<<ModuleEntry("l1"), ModuleEntry("l2"), ModuleEntry("l3")>>}

\* the groups whose values are changed in place: the first one
MutatedGroups == {i \in DOMAIN module_groups : i = 1}

\* the unit the update_mask policy prunes in one step: the first or the last
PolicyChoices == {0, NUnits - 1}

\* the pruned_outputs manual_mask_update is called with: the first unit, or all
PrunedOutputsChoices == {{0}, Units}

\* BasePruner.__init__ on a freshly built model
Init ==
    /\ \E net \in Models :
         modules = [m \in Mods |->
                      NewModule(IF m = Root THEN "Module" ELSE net.typing[m], net.shape[m])]
    /\ defaults \in DefaultsChoices
    /\ heap = InitialHeap
    /\ model = NoneMod
    /\ prune_bias = FALSE
    /\ module_groups = <<>>
    /\ activation_handles = <<>>
    /\ bias_handles = <<>>
    /\ enable_mask_update = TRUE
    /\ last = NoCall
    /\ ncalls = 0
    /\ nprepares = 0

Next ==
    \/ \E also_prune_bias \in BOOLEAN : Prepare(Root, NoneConfig, also_prune_bias)
    \/ \E config \in Configs : Prepare(Root, config, TRUE)
    \/ \E use_path \in BOOLEAN : \E unit \in PolicyChoices : Step(use_path, unit)
    \/ \E m \in Layers : \E po \in PrunedOutputsChoices : ManualMaskUpdate(m, po)
    \/ \E use_path \in BOOLEAN : SquashMask(use_path)
    \/ \E b \in BOOLEAN : SetEnableMaskUpdate(b)
    \/ \E i \in MutatedGroups : SetGroupValue(i, "sparsity_level")

Spec == Init /\ [][Next]_vars

(***************************************************************************)
(* Notions the properties are stated with                                  *)
(***************************************************************************)
RECURSIVE Descendants(_, _)
\* the modules below m in the tree
Descendants(ms, m) ==
    LET kids == {ms[m]._modules[i][2] : i \in 1 .. Len(ms[m]._modules)} \ {NoneMod}
    IN kids \cup UNION {Descendants(ms, k) : k \in kids}

GroupModules == {module_groups[i].module : i \in 1 .. Len(module_groups)}

\* the state right after the first prepare of the pruner
AfterFirstPrepare == last.op = "prepare" /\ nprepares = 1

\* the modules the auto-discovery came across: the children of the modules
\* it popped off its stack
Discovered ==
    {m \in Layers : \E i \in 1 .. Len(last.traversed) :
        \E j \in 1 .. Len(modules[last.traversed[i]]._modules) :
            modules[last.traversed[i]]._modules[j][2] = m}

(***************************************************************************)
(* C1                                                                      *)
(***************************************************************************)
\* C1: after prepare(model, config=None) on a fresh pruner, every group's
\* module has its exact type in SUPPORTED_MODULES and no module object is in
\* more than one group, also when it is a child of two parents.
C1_AutoDiscoverySupportedAndUnique ==
    (AfterFirstPrepare /\ last.auto) =>
        /\ \A i \in 1 .. Len(module_groups) :
               modules[module_groups[i].module].type \in SUPPORTED_MODULES
        /\ \A i, j \in 1 .. Len(module_groups) :
               i # j => module_groups[i].module # module_groups[j].module

(***************************************************************************)
(* C2                                                                      *)
(***************************************************************************)
\* C2 as stated: after the auto-discovery, a module it came across whose
\* exact type is in NEEDS_MANUAL_UPDATE is in no group, was not traversed
\* into, and has a warning when also_prune_bias is set.
C2_ManualUpdateKindsSkippedAndWarned ==
    (AfterFirstPrepare /\ last.auto) =>
        \A m \in Discovered :
            modules[m].type \in NEEDS_MANUAL_UPDATE =>
                /\ m \notin GroupModules
                /\ \A i \in 1 .. Len(last.traversed) : last.traversed[i] # m
                /\ prune_bias =>
                       \E i \in 1 .. Len(last.warnings) :
                           last.warnings[i] = ManualWarning(modules[m].type)

\* C2 amended: after the auto-discovery, a module it came across whose exact
\* type is in NEEDS_MANUAL_UPDATE is registered as a group (the kind is also
\* in SUPPORTED_MODULES), was not traversed into, and prepare emitted no
\* warning, whatever also_prune_bias is.
C2_ManualUpdateKindsRegisteredNoWarning ==
    (AfterFirstPrepare /\ last.auto) =>
        \A m \in Discovered :
            modules[m].type \in NEEDS_MANUAL_UPDATE =>
                /\ m \in GroupModules
                /\ \A i \in 1 .. Len(last.traversed) : last.traversed[i] # m
                /\ last.warnings = <<>>

\* an auto-discovery with also_prune_bias set came across a BatchNorm2d that
\* has a child of its own, registered it and left the child alone
C2_Witness ==
    /\ AfterFirstPrepare /\ last.auto /\ prune_bias
    /\ \E m \in Discovered :
           /\ modules[m].type \in NEEDS_MANUAL_UPDATE
           /\ m \in GroupModules
           /\ Descendants(modules, m) # {}
           /\ Descendants(modules, m) \cap GroupModules = {}

(***************************************************************************)
(* C3                                                                      *)
(***************************************************************************)
\* _fqn_to_module(model, path) returns layer and does not raise
ResolvesTo(ms, path, layer) ==
    ~FqnToModuleRaises(path) /\ _fqn_to_module(ms, Root, path) = layer

\* C3 as stated: for the root and every module below it,
\* _fqn_to_module(model, _module_to_fqn(model, module)) is that module, with
\* the path exactly as _module_to_fqn returns it.
C3_RoundTripExactPath ==
    \A m \in {Root} \cup Descendants(modules, Root) :
        ResolvesTo(modules, _module_to_fqn(modules, Root, m), m)

\* C3 amended: for every module below the root, _module_to_fqn returns a path
\* that starts with '.', and _fqn_to_module returns that same module for the
\* path with this leading '.' removed (the form prepare stores as 'fqn');
\* for the path exactly as returned it returns None, and for the root
\* _module_to_fqn returns None.
C3_RoundTripStrippedPath ==
    /\ \A m \in Descendants(modules, Root) :
           LET path == _module_to_fqn(modules, Root, m)
           IN /\ path # NoneStr /\ path # <<>> /\ path[1] = Dot
              /\ ResolvesTo(modules, StripLeadingDot(path), m)
              /\ ResolvesTo(modules, path, NoneMod)
    /\ _module_to_fqn(modules, Root, Root) = NoneStr

\* step resolved a module three levels down, under a two-character name,
\* from the path prepare stored for it
C3_Witness ==
    /\ last.op = "step" /\ last.result = "ok"
    /\ \E i \in 1 .. Len(module_groups) :
           /\ module_groups[i].fqn = <<"a", ".", "f", "c", ".", "b">>
           /\ _module_to_fqn(modules, Root, module_groups[i].module)
                  = <<".", "a", ".", "f", "c", ".", "b">>
           /\ i <= Len(last.resolved)
           /\ last.resolved[i] = module_groups[i].module

(***************************************************************************)
(* C4                                                                      *)
(***************************************************************************)
\* the step just taken was a call of op
Called(op) == ncalls' = ncalls + 1 /\ last'.op = op

\* C4: with enable_mask_update false, step invokes update_mask for no group,
\* resolves no module, and leaves the modules (masks, pruned-unit sets,
\* transforms, hooks), the registry and the handle lists unchanged.
C4_DisabledStepIsNoOp ==
    [][(Called("step") /\ ~enable_mask_update) =>
          /\ last'.calls = <<>> /\ last'.resolved = <<>> /\ last'.warnings = <<>>
          /\ last'.result = "ok"
          /\ UNCHANGED <<modules, defaults, heap, model, prune_bias, module_groups,
                         activation_handles, bias_handles, enable_mask_update>>]_vars

\* a disabled step on a pruner holding a prepared group of a kind step would
\* otherwise update
C4_Witness ==
    /\ last.op = "step" /\ ~enable_mask_update
    /\ \E i \in 1 .. Len(module_groups) :
           /\ is_parametrized(modules, module_groups[i].module)
           /\ modules[module_groups[i].module].type \notin NEEDS_MANUAL_UPDATE
           /\ module_groups[i].fqn # NoneStr

(***************************************************************************)
(* C5                                                                      *)
(***************************************************************************)
\* the units a module's weight transforms mark as pruned
PrunedUnits(ms, m) ==
    UNION {ms[m].parametrizations[i].pruned_outputs :
               i \in 1 .. Len(ms[m].parametrizations)}

ManualKindModules == {m \in Mods : modules[m].type \in NEEDS_MANUAL_UPDATE}

\* C5: step never invokes update_mask on a module whose exact type is in
\* NEEDS_MANUAL_UPDATE (it warns instead), and among prepare, step and
\* manual_mask_update only manual_mask_update changes the pruned units of
\* such a module.
C5_ManualKindsOnlyUpdatedManually ==
    [][/\ Called("step") =>
            /\ \A i \in 1 .. Len(last'.calls) :
                   last'.calls[i][1] \notin ManualKindModules
            /\ \A i \in 1 .. Len(last'.resolved) :
                   last'.resolved[i] \in ManualKindModules =>
                       \E j \in 1 .. Len(last'.warnings) :
                           last'.warnings[j] = StepWarning(modules[last'.resolved[i]].type)
       /\ \A m \in ManualKindModules :
              (PrunedUnits(modules', m) # PrunedUnits(modules, m)
                   /\ ~Called("squash_mask"))
                  => Called("manual_mask_update")]_vars

\* an enabled step over a registry holding a BatchNorm2d whose units were
\* pruned by hand: the step warned for it, updated another layer, and the
\* BatchNorm2d's pruned units are as manual_mask_update left them
C5_Witness ==
    /\ last.op = "step" /\ enable_mask_update /\ last.result = "ok"
    /\ last.calls # <<>>
    /\ \E i \in 1 .. Len(last.resolved) :
           /\ last.resolved[i] \in ManualKindModules
           /\ is_parametrized(modules, last.resolved[i])
           /\ PrunedUnits(modules, last.resolved[i]) # {}
           /\ StepWarning(modules[last.resolved[i]].type) = last.warnings[1]

(***************************************************************************)
(* C6                                                                      *)
(***************************************************************************)
\* C6: manual_mask_update(module, pruned_outputs) on a prepared module sets
\* the pruned-unit set of the module's first weight transform to its union
\* with pruned_outputs and changes nothing else: no other field of the
\* module, no other module, not the registry, not enable_mask_update.
C6_ManualUpdateMergesOneModule ==
    [][(Called("manual_mask_update") /\ last'.result = "ok") =>
          LET m == last'.resolved[1]
          IN /\ is_parametrized(modules, m)
             /\ modules'[m].parametrizations[1].pruned_outputs =
                    modules[m].parametrizations[1].pruned_outputs \cup last'.arg
             /\ modules' = [modules EXCEPT
                              ![m].parametrizations[1].pruned_outputs =
                                  modules'[m].parametrizations[1].pruned_outputs]
             /\ UNCHANGED <<defaults, heap, model, prune_bias, module_groups,
                            activation_handles, bias_handles, enable_mask_update>>]_vars

\* a manual update that added a unit to a set that already held another one
C6_Witness ==
    /\ last.op = "manual_mask_update" /\ last.result = "ok"
    /\ LET po == modules[last.resolved[1]].parametrizations[1].pruned_outputs
       IN last.arg \subseteq po /\ last.arg # po /\ last.arg # {}

(***************************************************************************)
(* C7                                                                      *)
(***************************************************************************)
\* the weight and the bias a module is built with
OriginalWeight(m) == NewModule(modules[m].type, modules[m]._modules).weight
OriginalBias(m) == NewModule(modules[m].type, modules[m]._modules).bias

\* the two calls made so far were a successful prepare and squash_mask
PreparedThenSquashed ==
    /\ ncalls = 2 /\ nprepares = 1
    /\ last.op = "squash_mask" /\ last.result = "ok"

\* C7: prepare followed directly by squash_mask (all units retained) leaves
\* every registered module's weight and bias as they were before prepare, and
\* no mask buffer and no weight transform on it.
C7_PrepareSquashRoundTrip ==
    PreparedThenSquashed =>
        \A m \in GroupModules :
            /\ modules[m].weight = OriginalWeight(m)
            /\ modules[m].bias = OriginalBias(m)
            /\ modules[m].mask = NoneT
            /\ ~is_parametrized(modules, m)

(***************************************************************************)
(* C8                                                                      *)
(***************************************************************************)
\* the modules of the registry that hold no weight transform: never prepared,
\* or finalized since
Unprepared == {m \in GroupModules : ~is_parametrized(modules, m)}

\* a module is registered twice, so the second visit finds it finalized
RegisteredTwice ==
    \E i, j \in 1 .. Len(module_groups) :
        i # j /\ module_groups[i].module = module_groups[j].module

\* C8: squash_mask over a registry with a group whose module was never
\* prepared or is already finalized (also: a second squash_mask) ends in an
\* error.
C8_SquashOfUnpreparedRaises ==
    [][(Called("squash_mask") /\ (Unprepared # {} \/ RegisteredTwice)) =>
          last'.result # "ok"]_vars

\* a second squash_mask: every registered module was fully prepared (it
\* carries the bias hook) and is finalized, and the call ended in an error
C8_Witness ==
    /\ last.op = "squash_mask" /\ last.result = "ValueError"
    /\ ncalls = 3 /\ nprepares = 1
    /\ module_groups # <<>>
    /\ \A m \in GroupModules :
           /\ modules[m]._forward_hooks # <<>>
           /\ ~is_parametrized(modules, m)
           /\ modules[m].mask = NoneT

(***************************************************************************)
(* C9                                                                      *)
(***************************************************************************)
\* the children of the root are one layer of a supported kind and one of an
\* unsupported kind that needs no zeroing, both without children
SupportedLayers == {m \in Descendants(modules, Root) : modules[m].type \in SUPPORTED_MODULES}
UnsupportedLayers == Descendants(modules, Root) \ SupportedLayers

OneSupportedOneUnsupported ==
    /\ Cardinality(SupportedLayers) = 1
    /\ Cardinality(UnsupportedLayers) = 1
    /\ \A m \in UnsupportedLayers : ~IsInstance(modules, m, NEEDS_ZEROS)

\* C9: on such a model, prepare with config=None registers exactly the
\* supported layer and succeeds, and prepare with a config that starts with
\* the unsupported layer ends in the unsupported-module error.
C9_UnsupportedLayerRejected ==
    (OneSupportedOneUnsupported /\ AfterFirstPrepare) =>
        /\ last.auto =>
               /\ Len(module_groups) = 1
               /\ module_groups[1].module \in SupportedLayers
               /\ last.result = "ok"
        /\ (~last.auto /\ module_groups[1].module \in UnsupportedLayers) =>
               last.result = "NotImplementedError"

(***************************************************************************)
(* C10                                                                     *)
(***************************************************************************)
\* C10: prepare with a config entry whose module is not in the model tree
\* fails during that prepare call.
C10_UnresolvableModuleFailsInPrepare ==
    (AfterFirstPrepare /\ ~last.auto
         /\ GroupModules \ Descendants(modules, Root) # {})
        => last.result # "ok"

(***************************************************************************)
(* C11                                                                     *)
(***************************************************************************)
\* the number of entries of a tensor: a 0-dim tensor (torch.tensor(n)) holds
\* one entry, a 1-dim tensor one entry per position
Numel(t) == IF "item" \in DOMAIN t THEN 1 ELSE Len(t.data)

HasMask(m) == modules[m].mask # NoneT

\* C12: at the end of every prepare, step, manual_mask_update and squash_mask
\* call, whether it returned or raised, a registered module has a mask buffer
\* exactly when it has a weight transform installed.
C12_MaskIffWeightTransform ==
    (last.op \in {"prepare", "step", "manual_mask_update", "squash_mask"}) =>
        \A m \in GroupModules : HasMask(m) <=> is_parametrized(modules, m)

\* a squash_mask that returned, on a registry whose modules the prepare call
\* before it had given a mask and a transform
C12_Witness ==
    /\ PreparedThenSquashed
    /\ Cardinality(GroupModules) = 2
    /\ \A m \in GroupModules : ~HasMask(m) /\ ~is_parametrized(modules, m)

\* a prepare that raised part way: one registered module with mask and
\* transform, another with neither
C12_WitnessFailedPrepare ==
    /\ last.op = "prepare" /\ last.result = "NotImplementedError"
    /\ \E m \in GroupModules : HasMask(m) /\ is_parametrized(modules, m)
    /\ \E m \in GroupModules : ~HasMask(m) /\ ~is_parametrized(modules, m)

(***************************************************************************)
(* C13                                                                     *)
(***************************************************************************)
\* the objects the caller keeps in config entries
CallerObjects ==
    {o \in DOMAIN InitialHeap : \A k \in DOMAIN defaults : defaults[k] # o}

\* the groups the last prepare appended are, in config order, the defaults
\* overlaid with the entry plus the stripped path of the module
GroupsAreDefaultsOverlaidWithEntries ==
    (last.op = "prepare") =>
        /\ Len(module_groups) >= Len(last.config)
        /\ \A i \in 1 .. Len(last.config) :
               LET g == module_groups[Len(module_groups) - Len(last.config) + i]
                   e == last.config[i]
               IN /\ DOMAIN g = DOMAIN defaults \cup DOMAIN e \cup {"fqn"}
                  /\ \A k \in DOMAIN e : g[k] = e[k]
                  /\ \A k \in DOMAIN defaults \ DOMAIN e :
                         heap[g[k]] = InitialHeap[defaults[k]]
                  /\ IF g.module \in Descendants(modules, Root)
                     THEN /\ g.fqn # NoneStr /\ g.fqn # <<>> /\ g.fqn[1] # Dot
                          /\ _fqn_to_module(modules, Root, g.fqn) = g.module
                     ELSE g.fqn = NoneStr

\* no group holds an object of the defaults, and two groups hold the same
\* object only when the caller put it in both entries
GroupsOwnTheirCopies ==
    /\ \A k \in DOMAIN defaults : heap[defaults[k]] = InitialHeap[defaults[k]]
    /\ \A i \in DOMAIN module_groups : \A k \in DOMAIN defaults :
           /\ module_groups[i][k] # defaults[k]
           /\ \A j \in DOMAIN module_groups \ {i} :
                  module_groups[j][k] = module_groups[i][k]
                      => module_groups[i][k] \in CallerObjects

\* a change of one group's value leaves the values of the defaults and the
\* copies the other groups hold as they were
GroupValueChangeIsLocal ==
    Called("set_group_value") =>
        /\ \A k \in DOMAIN defaults : heap'[defaults[k]] = heap[defaults[k]]
        /\ \A i, j \in DOMAIN module_groups : \A k \in DOMAIN defaults :
               (/\ i # j
                /\ heap'[module_groups[i][k]] # heap[module_groups[i][k]]
                /\ module_groups[j][k] \notin CallerObjects)
                   => heap'[module_groups[j][k]] = heap[module_groups[j][k]]

\* C13: for every config entry the registered group is the defaults overlaid
\* with the entry's keys (the entry wins) plus 'fqn', the module's path
\* without a leading '.'; groups are appended in config order; each group
\* holds its own deep copy of the defaults, so that changing a value of one
\* group changes neither the defaults nor another group.
C13_GroupsAreOwnCopiesOfDefaultsOverlaid ==
    /\ [](GroupsAreDefaultsOverlaidWithEntries /\ GroupsOwnTheirCopies)
    /\ [][GroupValueChangeIsLocal]_vars

\* a value of the first of two groups has been changed; the second group and
\* the defaults still hold the contents the defaults were built with
C13_Witness ==
    /\ last.op = "set_group_value"
    /\ Len(module_groups) = 2
    /\ heap[module_groups[1].sparsity_level] = MutatedContents
    /\ heap[module_groups[2].sparsity_level] = InitialHeap[defaults.sparsity_level]
    /\ heap[defaults.sparsity_level] = InitialHeap[defaults.sparsity_level]

\* a group whose entry set sparsity_level itself: the entry's object, not a
\* copy of the default
C13_WitnessEntryWins ==
    /\ last.op = "prepare" /\ ~last.auto
    /\ \E i \in DOMAIN module_groups :
           module_groups[i].sparsity_level \in CallerObjects

(***************************************************************************)
(* C14                                                                     *)
(***************************************************************************)
\* the forward hooks of one kind registered on a module
NumHooks(m, kind) ==
    Cardinality({i \in DOMAIN modules[m]._forward_hooks :
                     modules[m]._forward_hooks[i].hook = kind})

\* the first prepare was given the same module in both of its two entries
SameModuleTwice ==
    /\ AfterFirstPrepare /\ ~last.auto
    /\ Len(last.config) = 2
    /\ last.config[1].module = last.config[2].module

\* C14: when config names the same module twice, prepare registers two
\* groups, and either raises or leaves the module as if it had been listed
\* once: one weight transform, one bias hook, at most one activation hook.
C14_SecondAttachmentIsNoOpOrRaises ==
    SameModuleTwice =>
        /\ Len(module_groups) = 2
        /\ \/ last.result # "ok"
           \/ LET m == module_groups[1].module
              IN /\ Len(modules[m].parametrizations) = 1
                 /\ NumHooks(m, "BiasHook") = 1
                 /\ NumHooks(m, "ActivationReconstruction") <= 1

(***************************************************************************)
(* C15                                                                     *)
(***************************************************************************)
\* the groups whose module took the structural path of _prepare
StructuralGroups ==
    {i \in DOMAIN module_groups :
         ~IsInstance(modules, module_groups[i].module, NEEDS_ZEROS)}

\* the first prepare of the pruner returned, and no module is in two groups
PreparedDistinctModules ==
    AfterFirstPrepare /\ last.result = "ok" /\ ~RegisteredTwice

\* C15: after a successful prepare over distinct modules every group's
\* module has exactly one bias hook and bias_handles has one handle per
\* group; a structural-path module has exactly one activation hook, a
\* needs-zeroing module none, and activation_handles has one handle per
\* structural group; a module built with a bias has bias None and the value
\* in '_bias'.
C15_OneHookPerGroupAndBiasDetached ==
    PreparedDistinctModules =>
        /\ Len(bias_handles) = Len(module_groups)
        /\ Len(activation_handles) = Cardinality(StructuralGroups)
        /\ \A i \in DOMAIN module_groups :
               LET m == module_groups[i].module
               IN /\ NumHooks(m, "BiasHook") = 1
                  /\ \E j \in DOMAIN bias_handles : bias_handles[j].module = m
                  /\ NumHooks(m, "ActivationReconstruction")
                         = (IF i \in StructuralGroups THEN 1 ELSE 0)
                  /\ (i \in StructuralGroups)
                         <=> \E j \in DOMAIN activation_handles :
                                 activation_handles[j].module = m
                  /\ OriginalBias(m) # NoneT =>
                         /\ modules[m].bias = NoneT
                         /\ modules[m]._bias = OriginalBias(m)

\* two groups, one on each path, both modules built with a bias
C15_Witness ==
    /\ PreparedDistinctModules
    /\ Len(module_groups) = 2
    /\ Cardinality(StructuralGroups) = 1
    /\ \A m \in GroupModules :
           OriginalBias(m) # NoneT /\ modules[m]._bias = OriginalBias(m)

(***************************************************************************)
(* C16                                                                     *)
(***************************************************************************)
\* the groups step hands to update_mask, in registry order
UpdatedGroups ==
    SelectSeq(module_groups,
              LAMBDA g : ~TypeIn(modules, g.module, NEEDS_MANUAL_UPDATE))

\* C16: with enable_mask_update true, one step call invokes update_mask
\* exactly once for each group whose module is not of a needs-manual-update
\* kind, in registry order, with the module the group was registered with
\* and the group's whole configuration. (Every registered module is
\* prepared, so the policy itself has no reason to fail.)
C16_StepUpdatesEveryGroupOnce ==
    (last.op = "step" /\ enable_mask_update /\ Unprepared = {}) =>
        last.calls = [i \in 1 .. Len(UpdatedGroups) |->
                          <<UpdatedGroups[i].module, UpdatedGroups[i]>>]

(***************************************************************************)
(* C17                                                                     *)
(***************************************************************************)
\* a module with the pruned units of its weight transforms left out
WithoutMaskContents(mod) ==
    [mod EXCEPT !.parametrizations =
                    [i \in DOMAIN @ |-> [@[i] EXCEPT !.pruned_outputs = {}]]]

\* C17: a step call changes nothing of the registry bookkeeping: the groups
\* (their number, order, 'module', 'fqn' and values), the weight transforms
\* installed on each module, the two handle lists, the hooks and the bias
\* slots stay as they were; only the pruned units held by the transforms,
\* which the update_mask callback writes, may differ.
C17_StepKeepsBookkeeping ==
    [][Called("step") =>
           /\ module_groups' = module_groups
           /\ activation_handles' = activation_handles
           /\ bias_handles' = bias_handles
           /\ heap' = heap
           /\ defaults' = defaults
           /\ \A m \in Mods :
                  WithoutMaskContents(modules'[m]) = WithoutMaskContents(modules[m])]_vars

\* a step over two groups that pruned a unit, with the hooks of prepare in
\* place
C17_Witness ==
    /\ last.op = "step" /\ last.result = "ok"
    /\ Len(module_groups) = 2
    /\ Len(last.calls) >= 1
    /\ \E m \in GroupModules : PrunedUnits(modules, m) # {}
    /\ Len(bias_handles) = 2

(***************************************************************************)
(* C18                                                                     *)
(***************************************************************************)
\* the module was attached on the needs-zeroing path of _prepare: a zeroing
\* transform and no activation hook
TookZeroingPath(m) ==
    /\ is_parametrized(modules, m)
    /\ \A i \in DOMAIN modules[m].parametrizations :
           modules[m].parametrizations[i].cls = "ZeroesParametrization"
    /\ NumHooks(m, "ActivationReconstruction") = 0

\* C18: prepare puts a module on the needs-zeroing path exactly when the
\* module's exact type is in NEEDS_ZEROS, so a subtype of such a kind is
\* attached on the structural path; and the modules prepare treats as
\* needs-zeroing are the ones step treats as needs-manual-update, so step
\* invokes update_mask on none of them.
C18_ZeroingPathByExactType ==
    /\ (AfterFirstPrepare /\ last.result = "ok") =>
           \A m \in GroupModules :
               TookZeroingPath(m) <=> TypeIn(modules, m, NEEDS_ZEROS)
    /\ (last.op = "step" /\ nprepares = 1) =>
           \A i \in DOMAIN last.calls :
               last.calls[i][1] # NoneMod => ~TookZeroingPath(last.calls[i][1])

(***************************************************************************)
(* C19                                                                     *)
(***************************************************************************)
\* the module is as it was built: nothing attached to it
Untouched(m) == modules[m] = NewModule(modules[m].type, modules[m]._modules)

\* the module went through the whole loop body of _prepare
FullyAttached(m) ==
    /\ HasMask(m) /\ is_parametrized(modules, m)
    /\ NumHooks(m, "BiasHook") >= 1
    /\ IsInstance(modules, m, NEEDS_ZEROS)
           \/ NumHooks(m, "ActivationReconstruction") >= 1
    /\ modules[m].bias = NoneT
    /\ modules[m]._bias = OriginalBias(m)

\* the module got its mask and its weight transform and nothing else
OnlyMaskAndTransform(m) ==
    /\ HasMask(m) /\ Len(modules[m].parametrizations) = 1
    /\ modules[m]._forward_hooks = <<>>
    /\ modules[m].bias = OriginalBias(m)
    /\ modules[m]._bias = NoneT

\* the first prepare of the pruner raised the unsupported-module error
PrepareRaisedUnsupported ==
    AfterFirstPrepare /\ last.result = "NotImplementedError"

C20_SquashKeepsHooksAndBiasSlots ==
    [][Called("squash_mask") =>
           /\ module_groups' = module_groups
           /\ activation_handles' = activation_handles
           /\ bias_handles' = bias_handles
           /\ \A m \in Mods :
                  /\ modules'[m]._forward_hooks = modules[m]._forward_hooks
                  /\ modules'[m].bias = modules[m].bias
                  /\ modules'[m]._bias = modules[m]._bias
                  /\ modules'[m].type = modules[m].type
                  /\ modules'[m]._modules = modules[m]._modules]_vars

\* after prepare and squash_mask: a module without mask and transform that
\* still has both hooks, bias None and its value in '_bias'
C20_Witness ==
    /\ PreparedThenSquashed
    /\ Len(bias_handles) = Len(module_groups)
    /\ \E m \in GroupModules :
           /\ ~HasMask(m) /\ ~is_parametrized(modules, m)
           /\ NumHooks(m, "BiasHook") = 1
           /\ NumHooks(m, "ActivationReconstruction") = 1
           /\ modules[m].bias = NoneT
           /\ modules[m]._bias # NoneT /\ modules[m]._bias = OriginalBias(m)

====
